---- MODULE Spec2Model ----
(***************************************************************************)
(* A model of the sego segmenter (src/segmenter.go): the unit splitter,    *)
(* dictionary loading, and the Viterbi-style segmentation engine in plain  *)
(* and search mode.                                                        *)
(*                                                                         *)
(* Texts are sequences of bytes (integers 0..255); a unit (Go: Text) is a  *)
(* byte sequence; a token text is a sequence of units.  Go slices are      *)
(* 0-based and half-open; Slice(s, a, b) is Go's s[a:b].                   *)
(***************************************************************************)
EXTENDS Integers, Sequences, FiniteSets, TLC

VARIABLES
    dict,    \* Segmenter.dict: NoDict before LoadDictionary, else a Dictionary
    pc,      \* position of the sequential caller: "idle" or "returned"
    ret,     \* the call that last returned: its arguments, result and trace
    sp,      \* the splitter harness: input bytes, units, re-split units
    heap,    \* jumper arrays allocated by in-flight segmentation calls
    calls    \* per concurrent caller: the frame of its segmentation call

vars == <<dict, pc, ret, sp, heap, calls>>

(***************************************************************************)
(* Generic helpers                                                         *)
(***************************************************************************)
Slice(s, a, b) == SubSeq(s, a + 1, b)

minInt(a, b) == IF a > b THEN b ELSE a

RECURSIVE Pow2(_)
Pow2(n) == IF n = 0 THEN 1 ELSE 2 * Pow2(n - 1)

RECURSIVE Flatten(_)
Flatten(ss) == IF ss = <<>> THEN <<>> ELSE Head(ss) \o Flatten(Tail(ss))

RECURSIVE SeqsUpTo(_, _)
SeqsUpTo(S, n) ==
    IF n = 0 THEN {<<>>}
    ELSE LET shorter == SeqsUpTo(S, n - 1)
         IN  shorter \cup {Append(s, x) : s \in shorter, x \in S}

(***************************************************************************)
(* utf8.DecodeRune, unicode.IsLetter, unicode.IsNumber as used at          *)
(* splitTextToWords (src/segmenter.go:246-247).                            *)
(***************************************************************************)
RuneError == 65533

IsCont(b, lo, hi) == b >= lo /\ b <= hi

\* [r |-> rune, size |-> bytes consumed] for the first rune of non-empty p
DecodeRune(p) ==
    LET n  == Len(p)
        b0 == p[1]
        bad == [r |-> RuneError, size |-> 1]
        lo2 == IF b0 = 224 THEN 160 ELSE IF b0 = 240 THEN 144 ELSE 128
        hi2 == IF b0 = 237 THEN 159 ELSE IF b0 = 244 THEN 143 ELSE 191
    IN  IF b0 < 128 THEN [r |-> b0, size |-> 1]
        ELSE IF b0 >= 194 /\ b0 <= 223 THEN
            IF n >= 2 /\ IsCont(p[2], 128, 191)
            THEN [r |-> (b0 - 192) * 64 + (p[2] - 128), size |-> 2]
            ELSE bad
        ELSE IF b0 >= 224 /\ b0 <= 239 THEN
            IF n >= 3 /\ IsCont(p[2], lo2, hi2) /\ IsCont(p[3], 128, 191)
            THEN [r |-> (b0 - 224) * 4096 + (p[2] - 128) * 64 + (p[3] - 128),
                  size |-> 3]
            ELSE bad
        ELSE IF b0 >= 240 /\ b0 <= 244 THEN
            IF n >= 4 /\ IsCont(p[2], lo2, hi2) /\ IsCont(p[3], 128, 191)
                      /\ IsCont(p[4], 128, 191)
            THEN [r |-> (b0 - 240) * 262144 + (p[2] - 128) * 4096
                        + (p[3] - 128) * 64 + (p[4] - 128),
                  size |-> 4]
            ELSE bad
        ELSE bad

\* unicode.IsLetter on the runes of at most two bytes that the model draws
\* (ASCII, Latin-1 and Latin Extended-A)
IsLetter(r) ==
    \/ r >= 65 /\ r <= 90
    \/ r >= 97 /\ r <= 122
    \/ r \in {170, 181, 186}
    \/ r >= 192 /\ r <= 214
    \/ r >= 216 /\ r <= 246
    \/ r >= 248 /\ r <= 383

\* unicode.IsNumber on the same range
IsNumber(r) ==
    \/ r >= 48 /\ r <= 57
    \/ r \in {178, 179, 185, 188, 189, 190}

(***************************************************************************)
(* toLower (src/segmenter.go:276-286)                                      *)
(***************************************************************************)
toLower(text) ==
    [i \in 1..Len(text) |->
        IF text[i] >= 65 /\ text[i] <= 90 THEN text[i] - 65 + 97 ELSE text[i]]

(***************************************************************************)
(* splitTextToWords (src/segmenter.go:240-273)                             *)
(***************************************************************************)
\* the loop of lines 245-263; returns the loop's final local variables
RECURSIVE SplitLoop(_, _, _, _, _)
SplitLoop(text, current, inAlphanumeric, alphanumericStart, output) ==
    IF current >= Len(text)
    THEN [current |-> current, inAlphanumeric |-> inAlphanumeric,
          alphanumericStart |-> alphanumericStart, output |-> output]
    ELSE LET d == DecodeRune(Slice(text, current, Len(text)))
         IN  IF d.size <= 2 /\ (IsLetter(d.r) \/ IsNumber(d.r))
             THEN SplitLoop(text, current + d.size, TRUE,
                            IF ~inAlphanumeric THEN current ELSE alphanumericStart,
                            output)
             ELSE LET flushed ==
                          IF inAlphanumeric /\ current # 0
                          THEN Append(output,
                                      toLower(Slice(text, alphanumericStart, current)))
                          ELSE output
                  IN  SplitLoop(text, current + d.size, FALSE, alphanumericStart,
                                Append(flushed, Slice(text, current, current + d.size)))

\* a splitter that forgets the trailing flush of lines 266-270
splitTextToWordsNoFlush(text) == SplitLoop(text, 0, TRUE, 0, <<>>).output

splitTextToWords(text) ==
    LET l == SplitLoop(text, 0, TRUE, 0, <<>>)
    IN  IF l.inAlphanumeric /\ l.current # 0
        THEN Append(l.output, toLower(Slice(text, l.alphanumericStart, l.current)))
        ELSE l.output

\* textSliceByteLength: the bytes of a sequence of units
textSliceByteLength(text) == Len(Flatten(text))

(***************************************************************************)
(* Costs.  The code computes float32(log2(total)) - float32(log2(freq))    *)
(* (src/segmenter.go:76-79).  The model computes log2 in binary fixed      *)
(* point, with a 24-bit mantissa as float32 has, by repeated squaring of   *)
(* the mantissa; CostOne is the cost 1.0.                                  *)
(***************************************************************************)
CostOne == Pow2(20)
MantOne == Pow2(24)
Limb == Pow2(12)

RECURSIVE FloorLog2(_)
FloorLog2(n) == IF n < 2 THEN 0 ELSE 1 + FloorLog2(n \div 2)

\* m * m / MantOne for MantOne <= m < 2 * MantOne, in 32-bit arithmetic
Square(m) ==
    LET a == m \div Limb
        b == m % Limb
    IN  a * a + (2 * a * b) \div Limb + (b * b) \div MantOne

RECURSIVE FracLoop(_, _, _)
FracLoop(m, one, acc) ==
    IF one = 1 THEN acc
    ELSE LET sq == Square(m)
         IN  IF sq >= 2 * MantOne
             THEN FracLoop(sq \div 2, one \div 2, 2 * acc + 1)
             ELSE FracLoop(sq, one \div 2, 2 * acc)

\* math.Log2 of an integer 1 <= n < MantOne, in units of 1/CostOne
Log2(n) ==
    LET e == FloorLog2(n)
    IN  e * CostOne + FracLoop(n * (MantOne \div Pow2(e)), CostOne, 0)

minTokenFrequency == 2

\* a pseudo token literal without its distance field
PseudoDistanceUnset == 0 * CostOne

\* the pseudo token of line 179: frequency 1, distance 32, pos "x"
PseudoDistance == 32 * CostOne
PosX == <<120>>

(***************************************************************************)
(* Tokens, token pointers, the dictionary                                  *)
(***************************************************************************)
\* *Token: idx > 0 points at dict.tokens[idx]; idx = 0 is a pseudo token
\* allocated by the call for the unit `text`; NilToken is the nil pointer
NilToken == [idx |-> -1, text |-> <<>>]
DictRef(i) == [idx |-> i, text |-> <<>>]
PseudoRef(unit) == [idx |-> 0, text |-> <<unit>>]

Deref(d, ref) ==
    IF ref.idx = 0
    THEN [text |-> ref.text, frequency |-> 1, pos |-> PosX,
          distance |-> PseudoDistance, segments |-> <<>>]
    ELSE d.tokens[ref.idx]

IsPseudo(d, ref) == Deref(d, ref).frequency = 1 /\ Deref(d, ref).pos = PosX

NewDictionary ==
    [kind |-> "dict", tokens |-> <<>>, totalFrequency |-> 0, maxTokenLength |-> 0]

addToken(d, token) ==
    [d EXCEPT !.tokens = Append(@, token),
              !.totalFrequency = @ + token.frequency,
              !.maxTokenLength = IF Len(token.text) > @ THEN Len(token.text) ELSE @]

\* the tokens whose whole text is a prefix of words, by ascending length
RECURSIVE lookupFrom(_, _, _)
lookupFrom(d, words, n) ==
    IF n > Len(words) THEN <<>>
    ELSE LET hits == {i \in 1..Len(d.tokens) : d.tokens[i].text = SubSeq(words, 1, n)}
             RECURSIVE InOrder(_)
             InOrder(S) == IF S = {} THEN <<>>
                           ELSE LET i == CHOOSE x \in S : \A y \in S : x <= y
                                IN  <<DictRef(i)>> \o InOrder(S \ {i})
         IN  InOrder(hits) \o lookupFrom(d, words, n + 1)

lookupTokens(d, words) == lookupFrom(d, words, 1)

(***************************************************************************)
(* updateJumper (src/segmenter.go:215-221)                                 *)
(***************************************************************************)
NewJumper == [minDistance |-> 0, token |-> NilToken]

\* an update that also replaces on equal distance
updateJumperNonStrict(jumper, baseDistance, distance, token) ==
    LET newDistance == baseDistance + distance
    IN  IF jumper.minDistance = 0 \/ jumper.minDistance >= newDistance
        THEN [minDistance |-> newDistance, token |-> token]
        ELSE jumper

updateJumper(jumper, baseDistance, distance, token) ==
    LET newDistance == baseDistance + distance
    IN  IF jumper.minDistance = 0 \/ jumper.minDistance > newDistance
        THEN [minDistance |-> newDistance, token |-> token]
        ELSE jumper

(***************************************************************************)
(* segmentWords (src/segmenter.go:143-208).  A frame holds the jumpers and *)
(* `applied`, the record of every updateJumper call in program order.      *)
(***************************************************************************)
NewFrame(n) == [jumpers |-> [i \in 1..n |-> NewJumper], applied |-> <<>>]

\* one updateJumper call on cell `location` (0-based)
Apply(d, fr, location, baseDistance, token, current) ==
    [jumpers |-> [fr.jumpers EXCEPT ![location + 1] =
                     updateJumper(@, baseDistance, Deref(d, token).distance, token)],
     applied |-> Append(fr.applied,
                    [location |-> location, token |-> token, current |-> current,
                     newDistance |-> baseDistance + Deref(d, token).distance])]

\* does line 171 let the match starting at current, ending at location, update?
\* a condition that never suppresses the match spanning the whole text
MayUpdateAlways(searchMode, current, location, n) == TRUE

MayUpdate(searchMode, current, location, n) ==
    ~searchMode \/ current # 0 \/ location # n - 1

\* lines 169-174
RECURSIVE ApplyTokens(_, _, _, _, _, _, _, _)
ApplyTokens(d, fr, text, searchMode, current, baseDistance, tokens, iToken) ==
    IF iToken >= Len(tokens) THEN fr
    ELSE LET token    == tokens[iToken + 1]
             location == current + Len(Deref(d, token).text) - 1
             next     == IF MayUpdate(searchMode, current, location, Len(text))
                         THEN Apply(d, fr, location, baseDistance, token, current)
                         ELSE fr
         IN  ApplyTokens(d, next, text, searchMode, current, baseDistance,
                         tokens, iToken + 1)

\* a condition that adds the pseudo token at every position
NeedsPseudoAlways(d, tokens) == TRUE

\* does line 177 add the pseudo token, given the lookup result?
NeedsPseudo(d, tokens) ==
    Len(tokens) = 0 \/ Len(Deref(d, tokens[1]).text) > 1

\* lines 156-162
BaseDistance(jumpers, current) ==
    IF current = 0 THEN 0 ELSE jumpers[current].minDistance

\* lines 165-166: the tokens starting at current
LookupAt(d, text, current) ==
    lookupTokens(d, Slice(text, current,
                          minInt(current + d.maxTokenLength, Len(text))))

\* lines 168-180: the updates of one value of current, given the lookup result
UpdateStep(d, fr, text, searchMode, current, baseDistance, tokens) ==
    LET matched == ApplyTokens(d, fr, text, searchMode, current, baseDistance,
                               tokens, 0)
    IN  IF NeedsPseudo(d, tokens)
        THEN Apply(d, matched, current, baseDistance,
                   PseudoRef(text[current + 1]), current)
        ELSE matched

\* the body of the loop of lines 154-181 for one value of current
ForwardStep(d, fr, text, searchMode, current) ==
    UpdateStep(d, fr, text, searchMode, current,
               BaseDistance(fr.jumpers, current), LookupAt(d, text, current))

RECURSIVE Forward(_, _, _, _, _)
Forward(d, fr, text, searchMode, current) ==
    IF current >= Len(text) THEN fr
    ELSE Forward(d, ForwardStep(d, fr, text, searchMode, current),
                 text, searchMode, current + 1)

\* a backward walk that steps one unit whatever the token's length
RECURSIVE BackwardByOne(_, _, _, _)
BackwardByOne(d, jumpers, index, out) ==
    IF index < 0 THEN out
    ELSE BackwardByOne(d, jumpers, index - 1, <<jumpers[index + 1].token>> \o out)

\* lines 183-198: the tokens of the path, walked back from the last unit
RECURSIVE Backward(_, _, _, _)
Backward(d, jumpers, index, out) ==
    IF index < 0 THEN out
    ELSE LET token    == jumpers[index + 1].token
             location == index - Len(Deref(d, token).text) + 1
         IN  Backward(d, jumpers, location - 1, <<token>> \o out)

\* lines 200-207: byte positions
RECURSIVE BytePositions(_, _, _, _)
BytePositions(d, tokens, iSeg, bytePosition) ==
    IF iSeg >= Len(tokens) THEN <<>>
    ELSE LET token == tokens[iSeg + 1]
             end   == bytePosition + textSliceByteLength(Deref(d, token).text)
         IN  <<[token |-> token, start |-> bytePosition, end |-> end]>>
             \o BytePositions(d, tokens, iSeg + 1, end)

Output(d, jumpers) ==
    BytePositions(d, Backward(d, jumpers, Len(jumpers) - 1, <<>>), 0, 0)

\* segmentWords with its trace
segmentWordsTraced(d, text, searchMode) ==
    IF searchMode /\ Len(text) = 1
    THEN [segments |-> <<>>, frame |-> NewFrame(0)]
    ELSE LET fr == Forward(d, NewFrame(Len(text)), text, searchMode, 0)
         IN  [segments |-> Output(d, fr.jumpers), frame |-> fr]

segmentWords(d, text, searchMode) == segmentWordsTraced(d, text, searchMode).segments

\* internalSegment (src/segmenter.go:131-141)
internalSegmentTraced(d, bytes, searchMode) ==
    IF Len(bytes) = 0
    THEN [segments |-> <<>>, frame |-> NewFrame(0), text |-> <<>>]
    ELSE LET text == splitTextToWords(bytes)
             r    == segmentWordsTraced(d, text, searchMode)
         IN  [segments |-> r.segments, frame |-> r.frame, text |-> text]

(***************************************************************************)
(* LoadDictionary (src/segmenter.go:39-105).  A content is a sequence of   *)
(* lines, each line the fields strings.Fields found on it.                 *)
(***************************************************************************)
\* strconv.Atoi: an optional sign, then decimal digits only
RECURSIVE Digits(_, _)
Digits(s, acc) ==
    IF s = <<>> THEN [ok |-> TRUE, value |-> acc]
    ELSE IF Head(s) >= 48 /\ Head(s) <= 57
         THEN Digits(Tail(s), 10 * acc + (Head(s) - 48))
         ELSE [ok |-> FALSE, value |-> 0]

Atoi(s) ==
    IF s = <<>> THEN [ok |-> FALSE, value |-> 0]
    ELSE IF Head(s) \in {43, 45}
         THEN IF Tail(s) = <<>> THEN [ok |-> FALSE, value |-> 0]
              ELSE LET r == Digits(Tail(s), 0)
                   IN  [ok |-> r.ok,
                        value |-> IF Head(s) = 45 THEN 0 - r.value ELSE r.value]
         ELSE Digits(s, 0)

\* lines 53-72: one line of the content
ReadLine(d, fields) ==
    IF Len(fields) < 2 THEN d
    ELSE LET text      == fields[1]
             pos       == IF Len(fields) >= 3 THEN fields[3] ELSE <<>>
             frequency == Atoi(fields[2])
         IN  IF ~frequency.ok \/ frequency.value < minTokenFrequency THEN d
             ELSE addToken(d, [text |-> splitTextToWords(text),
                               frequency |-> frequency.value, pos |-> pos,
                               distance |-> 0, segments |-> <<>>])

RECURSIVE ReadLines(_, _)
ReadLines(d, content) ==
    IF content = <<>> THEN d
    ELSE ReadLines(ReadLine(d, Head(content)), Tail(content))

\* lines 75-80
SetDistances(d) ==
    LET logTotalFrequency == Log2(d.totalFrequency)
    IN  [d EXCEPT !.tokens =
            [i \in 1..Len(d.tokens) |->
                [d.tokens[i] EXCEPT !.distance =
                    logTotalFrequency - Log2(d.tokens[i].frequency)]]]

\* lines 87-101: the segments whose token has a text
RECURSIVE NonEmptySegments(_, _)
NonEmptySegments(d, segments) ==
    IF segments = <<>> THEN <<>>
    ELSE (IF Len(Deref(d, Head(segments).token).text) > 0
          THEN <<Head(segments)>> ELSE <<>>)
         \o NonEmptySegments(d, Tail(segments))

\* sub-segmentation in plain mode
SubSegmentModePlain == FALSE

\* the mode line 85 passes to segmentWords
SubSegmentMode == TRUE

\* lines 83-102, token by token
RECURSIVE SetSegments(_, _)
SetSegments(d, i) ==
    IF i > Len(d.tokens) THEN d
    ELSE LET segments == segmentWords(d, d.tokens[i].text, SubSegmentMode)
         IN  SetSegments([d EXCEPT !.tokens[i].segments =
                                      NonEmptySegments(d, segments)],
                         i + 1)

LoadDictionaryResult(content) ==
    SetSegments(SetDistances(ReadLines(NewDictionary, content)), 1)

(***************************************************************************)
(* Bounds and inputs of the splitter harness                               *)
(***************************************************************************)
MaxSplitLen == 4

\* 'A' 'a' '1' ','; C3 A9 (e-acute, a letter), C3 97 (multiplication sign,
\* no letter); E4 B8 AD (a three-byte CJK letter); lone bytes are invalid
SplitBytes == {65, 97, 49, 44, 195, 169, 151, 228, 184, 173}

SplitInputs == SeqsUpTo(SplitBytes, MaxSplitLen)

(***************************************************************************)
(* Bounds and inputs of the segmenter                                      *)
(***************************************************************************)
MaxLines == 4
MaxInputChars == 3

Zhong == <<228, 184, 173>>
Guo == <<229, 155, 189>>
UpperA == <<65>>

\* decimal literals
Lit1 == <<49>>
Lit2 == <<50>>
Lit4 == <<52>>
Lit6 == <<54>>
LitBig == <<50, 54, 50, 49, 52, 52>>
LitBad == <<120, 50>>

PosN == <<110>>

\* the lines a dictionary file is drawn from; the accepted ones have
\* pairwise distinct texts
LinePool ==
    << <<Zhong, Lit6, PosN>>,
       <<Guo, Lit2>>,
       <<Zhong \o Guo, Lit2, PosN>>,
       <<Zhong \o Zhong, Lit4>>,
       <<UpperA, Lit2>>,
       <<Zhong \o Guo \o UpperA, LitBig>>,
       <<Guo \o UpperA, LitBig>>,
       <<Guo \o Guo, Lit1>>,
       <<Guo>>,
       <<Zhong, LitBad>> >>

RECURSIVE PickLines(_, _)
PickLines(S, i) ==
    IF i > Len(LinePool) THEN <<>>
    ELSE (IF i \in S THEN <<LinePool[i]>> ELSE <<>>) \o PickLines(S, i + 1)

Contents ==
    {PickLines(S, 1) : S \in {T \in SUBSET (1..Len(LinePool)) :
                                 Cardinality(T) <= MaxLines}}

Inputs == {Flatten(cs) : cs \in SeqsUpTo({Zhong, Guo, UpperA}, MaxInputChars)}

NoDict == [kind |-> "nil"]
NoRet == [op |-> "none"]
SpIdle == [pc |-> "start"]

SplitInit ==
    /\ dict = NoDict
    /\ pc = "idle"
    /\ ret = NoRet
    /\ heap = <<>>
    /\ calls = <<>>
    /\ sp = SpIdle

\* the harness splits an input ...
Split ==
    /\ sp.pc = "start"
    /\ \E bytes \in SplitInputs :
          sp' = [pc |-> "split", input |-> bytes, units |-> splitTextToWords(bytes)]
    /\ UNCHANGED <<dict, pc, ret, heap, calls>>

\* ... and splits the concatenation of the units again
Resplit ==
    /\ sp.pc = "split"
    /\ sp' = [pc |-> "resplit", input |-> sp.input, units |-> sp.units,
              again |-> splitTextToWords(Flatten(sp.units))]
    /\ UNCHANGED <<dict, pc, ret, heap, calls>>

SplitReset ==
    /\ sp.pc = "resplit"
    /\ sp' = SpIdle
    /\ UNCHANGED <<dict, pc, ret, heap, calls>>

SplitNext == Split \/ Resplit \/ SplitReset

SpecSplit == SplitInit /\ [][SplitNext]_vars

\* C7: re-splitting the concatenation of a split's units gives the same units;
\* the units are non-empty and their bytes add up to the input's length.
C7_SplitIdempotent ==
    /\ sp.pc \in {"split", "resplit"} =>
          /\ \A i \in 1..Len(sp.units) : Len(sp.units[i]) > 0
          /\ textSliceByteLength(sp.units) = Len(sp.input)
    /\ sp.pc = "resplit" => sp.again = sp.units

\* an input with an upper-case run between other characters, split twice
C7_Witness ==
    /\ sp.pc = "resplit"
    /\ Len(sp.units) >= 2
    /\ \E i \in 1..Len(sp.input) : sp.input[i] = 65
    /\ \E i \in 1..Len(sp.units) : Len(sp.units[i]) = 3

(***************************************************************************)
(* The segmenter used by one sequential caller                             *)
(***************************************************************************)
Init ==
    /\ dict = NoDict
    /\ pc = "idle"
    /\ ret = NoRet
    /\ sp = SpIdle
    /\ heap = <<>>
    /\ calls = <<>>

LoadDictionary ==
    /\ pc = "idle"
    /\ \E content \in Contents : dict' = LoadDictionaryResult(content)
    /\ UNCHANGED <<pc, ret, sp, heap, calls>>

Returned(op, bytes, searchMode) ==
    LET r == internalSegmentTraced(dict, bytes, searchMode)
    IN  [op |-> op, bytes |-> bytes, searchMode |-> searchMode, text |-> r.text,
         segments |-> r.segments, frame |-> r.frame]

\* Segment (src/segmenter.go:116-118)
Segment ==
    /\ pc = "idle"
    /\ dict.kind = "dict"
    /\ \E bytes \in Inputs : ret' = Returned("Segment", bytes, FALSE)
    /\ pc' = "returned"
    /\ UNCHANGED <<dict, sp, heap, calls>>

\* InternalSegment (src/segmenter.go:120-122)
InternalSegment ==
    /\ pc = "idle"
    /\ dict.kind = "dict"
    /\ \E bytes \in Inputs, searchMode \in BOOLEAN :
          ret' = Returned("InternalSegment", bytes, searchMode)
    /\ pc' = "returned"
    /\ UNCHANGED <<dict, sp, heap, calls>>

\* the caller takes the result and is ready for its next call
Return ==
    /\ pc = "returned"
    /\ pc' = "idle"
    /\ ret' = NoRet
    /\ UNCHANGED <<dict, sp, heap, calls>>

Next == LoadDictionary \/ Segment \/ InternalSegment \/ Return

Spec == Init /\ [][Next]_vars

(***************************************************************************)
(* Properties of a returned call                                           *)
(***************************************************************************)
\* the call that returned ran the engine on at least one unit
Ran == pc = "returned" /\ Len(ret.bytes) > 0
                       /\ (ret.searchMode => Len(ret.text) >= 2)

Plain == pc = "returned" /\ Len(ret.bytes) > 0 /\ ~ret.searchMode

Recall == pc = "returned" /\ ret.searchMode /\ Len(ret.text) >= 2

Distance(ref) == Deref(dict, ref).distance

RECURSIVE SumDistance(_)
SumDistance(segments) ==
    IF segments = <<>> THEN 0
    ELSE Distance(Head(segments).token) + SumDistance(Tail(segments))

\* the dictionary tokens whose text is a prefix of the units from position i on
MatchesAt(text, i) ==
    {k \in 1..Len(dict.tokens) :
        LET t == dict.tokens[k].text
        IN  i + Len(t) - 1 <= Len(text) /\ SubSeq(text, i, i + Len(t) - 1) = t}

HasSingleUnitTerm(unit) == \E k \in 1..Len(dict.tokens) : dict.tokens[k].text = <<unit>>

Minimum(S) == CHOOSE x \in S : \A y \in S : x <= y

\* the least total cost of a decomposition of the units from position i on
\* into candidates: matching dictionary terms, or the pseudo term where no
\* single-unit term matches
RECURSIVE MinCostFrom(_, _)
MinCostFrom(text, i) ==
    IF i > Len(text) THEN 0
    ELSE Minimum(
           {dict.tokens[k].distance + MinCostFrom(text, i + Len(dict.tokens[k].text)) :
               k \in MatchesAt(text, i)}
           \cup (IF HasSingleUnitTerm(text[i]) THEN {}
                 ELSE {32 * CostOne + MinCostFrom(text, i + 1)}))

\* the decompositions of the units from position i on into dictionary terms
RECURSIVE Decompositions(_, _)
Decompositions(text, i) ==
    IF i > Len(text) THEN {<<>>}
    ELSE UNION {{<<k>> \o rest :
                    rest \in Decompositions(text, i + Len(dict.tokens[k].text))} :
                k \in MatchesAt(text, i)}

RECURSIVE SumTokenDistance(_)
SumTokenDistance(ks) ==
    IF ks = <<>> THEN 0
    ELSE dict.tokens[Head(ks)].distance + SumTokenDistance(Tail(ks))

\* byte offset at which unit k (1-based) of the text begins
UnitStart(text, k) == textSliceByteLength(SubSeq(text, 1, k - 1))

\* C1: the segments of a call are contiguous and exactly cover the input bytes.
C1_Coverage ==
    Ran =>
        LET s == ret.segments
        IN  /\ Len(s) >= 1
            /\ s[1].start = 0
            /\ \A i \in 1..(Len(s) - 1) : s[i].end = s[i + 1].start
            /\ \A i \in 1..Len(s) : s[i].start < s[i].end
            /\ s[Len(s)].end = Len(ret.bytes)

\* a search-mode call on three units of 3 + 3 + 1 bytes whose result holds a
\* two-unit dictionary term
C1_Witness ==
    /\ Recall
    /\ Len(ret.text) = 3
    /\ Len(ret.bytes) = 7
    /\ \E i \in 1..Len(ret.segments) :
          /\ ret.segments[i].token.idx > 0
          /\ Len(Deref(dict, ret.segments[i].token).text) = 2

\* C2: in plain mode the cost of the returned segmentation is the least cost
\* of any decomposition of the units into candidates.
C2_MinimalCost ==
    Plain => SumDistance(ret.segments) = MinCostFrom(ret.text, 1)

\* C3: with a dictionary of exactly one term, plain segmentation of the
\* term's own text returns one segment, and its term is the dictionary term.
C3_KnownTermExactMatch ==
    (Plain /\ Len(dict.tokens) = 1 /\ ret.text = dict.tokens[1].text) =>
        /\ Len(ret.segments) = 1
        /\ ret.segments[1].token = DictRef(1)

\* C4: with an empty dictionary a call returns one segment per unit, the k-th
\* covering the k-th unit with a pseudo term: pos "x", frequency 1, cost 32.
C4_UnknownFallback ==
    (Ran /\ Len(dict.tokens) = 0) =>
        /\ Len(ret.segments) = Len(ret.text)
        /\ \A k \in 1..Len(ret.segments) :
              LET seg == ret.segments[k]
                  tok == Deref(dict, seg.token)
              IN  /\ tok.text = <<ret.text[k]>>
                  /\ tok.pos = <<120>>
                  /\ tok.frequency = 1
                  /\ tok.distance = 32 * CostOne
                  /\ seg.start = UnitStart(ret.text, k)
                  /\ seg.end = UnitStart(ret.text, k + 1)

\* a search-mode call on three units under an empty dictionary
C4_Witness ==
    /\ Recall
    /\ Len(dict.tokens) = 0
    /\ dict.maxTokenLength = 0
    /\ Len(ret.text) = 3
    /\ Len(ret.segments) = 3

\* the input is itself a dictionary term
InputIsTerm == \E k \in 1..Len(dict.tokens) : dict.tokens[k].text = ret.text

NoPseudoSegment == \A i \in 1..Len(ret.segments) : ret.segments[i].token.idx > 0

C6_Original ==
    dict.kind = "dict" =>
        \A k \in 1..Len(dict.tokens) :
            dict.tokens[k].segments =
                IF Len(dict.tokens[k].text) > 1
                THEN segmentWords(dict, dict.tokens[k].text, FALSE)
                ELSE <<>>

\* C6 amended: a loaded multi-unit term stores its search-mode segmentation
\* (the best one that is not the term itself), a single-unit term nothing.
C6_SubSegments ==
    dict.kind = "dict" =>
        \A k \in 1..Len(dict.tokens) :
            LET stored == dict.tokens[k].segments
                text   == dict.tokens[k].text
            IN  IF Len(text) > 1
                THEN /\ stored = segmentWords(dict, text, TRUE)
                     /\ Len(stored) >= 2
                     /\ stored[Len(stored)].end = textSliceByteLength(text)
                ELSE stored = <<>>

\* a loaded dictionary with a compound term stored as two registered terms,
\* next to single-unit terms
C6_Witness ==
    /\ dict.kind = "dict"
    /\ \E k \in 1..Len(dict.tokens) :
          /\ Len(dict.tokens[k].text) = 2
          /\ Len(dict.tokens[k].segments) = 2
          /\ \A i \in 1..2 : dict.tokens[k].segments[i].token.idx > 0

\* the updateJumper calls made on cell p (0-based), in program order
AppliedAt(p) == SelectSeq(ret.frame.applied, LAMBDA a : a.location = p)

\* C9: when several candidates reach a cell with the same least cumulative
\* cost, the cell keeps the one applied first.
C9_TieKeepsFirst ==
    Ran =>
        \A p \in 0..(Len(ret.text) - 1) :
            LET cands == AppliedAt(p)
                least == Minimum({cands[j].newDistance : j \in 1..Len(cands)})
                ties  == {j \in 1..Len(cands) : cands[j].newDistance = least}
            IN  Cardinality(ties) >= 2 =>
                    /\ ret.frame.jumpers[p + 1].token = cands[Minimum(ties)].token
                    /\ ret.frame.jumpers[p + 1].minDistance = least

\* a call in which two different terms reach a cell with the same least cost
C9_Witness ==
    /\ Ran
    /\ \E p \in 0..(Len(ret.text) - 1) :
          LET cands == AppliedAt(p)
              least == Minimum({cands[j].newDistance : j \in 1..Len(cands)})
          IN  \E i, j \in 1..Len(cands) :
                 /\ i < j
                 /\ cands[i].newDistance = least
                 /\ cands[j].newDistance = least
                 /\ cands[i].token # cands[j].token

PseudoAppliedAt(current) ==
    \E j \in 1..Len(ret.frame.applied) :
        /\ ret.frame.applied[j].current = current
        /\ ret.frame.applied[j].token.idx = 0

\* C10: the pseudo term is a candidate at a position exactly when no
\* single-unit dictionary term matches there, and no returned segment is a
\* pseudo term over a unit for which the dictionary holds a single-unit term.
C10_PseudoOnlyWhenNoSingle ==
    Ran =>
        /\ \A current \in 0..(Len(ret.text) - 1) :
              PseudoAppliedAt(current) <=> ~HasSingleUnitTerm(ret.text[current + 1])
        /\ \A i \in 1..Len(ret.segments) :
              IsPseudo(dict, ret.segments[i].token) =>
                  ~HasSingleUnitTerm(Deref(dict, ret.segments[i].token).text[1])

\* a call with one position whose shortest match is longer than one unit
\* (pseudo term added) and another covered by a single-unit term (none added)
C10_Witness ==
    /\ Ran
    /\ \E c \in 0..(Len(ret.text) - 1) :
          /\ MatchesAt(ret.text, c + 1) # {}
          /\ ~HasSingleUnitTerm(ret.text[c + 1])
          /\ PseudoAppliedAt(c)
    /\ \E c \in 0..(Len(ret.text) - 1) :
          /\ HasSingleUnitTerm(ret.text[c + 1])
          /\ ~PseudoAppliedAt(c)

(***************************************************************************)
(* Concurrent callers of one loaded Segmenter.  Each call runs             *)
(* internalSegment step by step: the lookup of a position writes the       *)
(* call's tokens buffer (line 153), the updates of the position read it    *)
(* and write the call's jumpers (line 151).  Buffers live in `heap`, by    *)
(* address; buffers no call refers to are collected.                       *)
(***************************************************************************)
NumCallers == 2

Callers == 1..NumCallers

\* one zero-cost compound alone; a compound and its two parts
ConcContents == {PickLines(S, 1) : S \in {{3}, {1, 2, 3}}}

ConcInputs == {Guo, Zhong \o Guo}

IdleCall == [pc |-> "idle"]

InFlight(c) == calls[c].pc \in {"lookup", "update", "back"}

\* the address make() returns: one no live buffer has
NewBuffer(h) == CHOOSE a \in 1..(Cardinality(DOMAIN h) + 1) : a \notin DOMAIN h

\* one tokens buffer kept by the Segmenter and handed to every call
AllocTokensShared(h, n) ==
    IF 0 \in DOMAIN h THEN [heap |-> h, addr |-> 0]
    ELSE [heap |-> (0 :> [i \in 1..n |-> NilToken]) @@ h, addr |-> 0]

\* line 153: tokens := make([]*Token, maxTokenLength)
AllocTokens(h, n) ==
    LET a == NewBuffer(h)
    IN  [heap |-> (a :> [i \in 1..n |-> NilToken]) @@ h, addr |-> a]

\* line 151: jumpers := make([]jumper, len(text))
AllocJumpers(h, n) ==
    LET a == NewBuffer(h)
    IN  [heap |-> (a :> [i \in 1..n |-> NewJumper]) @@ h, addr |-> a]

Referenced(cs) ==
    UNION {IF cs[c].pc \in {"lookup", "update", "back"}
           THEN {cs[c].jumpersAt, cs[c].tokensAt} ELSE {} : c \in Callers}

Collect(h, cs) == [a \in DOMAIN h \cap Referenced(cs) |-> h[a]]

OthersInFlight(c) == \E o \in Callers \ {c} : InFlight(o)

ConcInit ==
    /\ dict = NoDict
    /\ pc = "idle"
    /\ ret = NoRet
    /\ sp = SpIdle
    /\ heap = <<>>
    /\ calls = [c \in Callers |-> IdleCall]

\* the dictionary is built and published while no call is running
ConcLoadDictionary ==
    /\ \A c \in Callers : calls[c].pc = "idle"
    /\ \E content \in ConcContents :
          /\ dict' = LoadDictionaryResult(content)
          /\ ret' = [op |-> "LoadDictionary", content |-> content]
    /\ UNCHANGED <<pc, sp, heap, calls>>

\* lines 131-153: the early returns, the split, the two allocations
CallStart(c) ==
    /\ calls[c].pc = "idle"
    /\ dict.kind = "dict"
    /\ \E bytes \in ConcInputs, searchMode \in BOOLEAN :
          LET text == splitTextToWords(bytes)
          IN  IF Len(bytes) = 0 \/ (searchMode /\ Len(text) = 1)
              THEN /\ calls' = [calls EXCEPT ![c] =
                          [pc |-> "done", bytes |-> bytes, searchMode |-> searchMode,
                           result |-> <<>>, sawOther |-> OthersInFlight(c)]]
                   /\ heap' = heap
              ELSE LET j == AllocJumpers(heap, Len(text))
                       t == AllocTokens(j.heap, dict.maxTokenLength)
                   IN  /\ calls' = [calls EXCEPT ![c] =
                              [pc |-> "lookup", bytes |-> bytes,
                               searchMode |-> searchMode, text |-> text,
                               jumpersAt |-> j.addr, tokensAt |-> t.addr,
                               current |-> 0, baseDistance |-> 0, numTokens |-> 0,
                               sawOther |-> OthersInFlight(c)]]
                       /\ heap' = t.heap
    /\ UNCHANGED <<dict, pc, ret, sp>>

\* lines 156-166 for the call's current position
CallLookup(c) ==
    /\ calls[c].pc = "lookup"
    /\ LET f      == calls[c]
           tokens == LookupAt(dict, f.text, f.current)
       IN  /\ heap' = [heap EXCEPT ![f.tokensAt] =
                          [i \in DOMAIN @ |->
                              IF i <= Len(tokens) THEN tokens[i] ELSE @[i]]]
           /\ calls' = [calls EXCEPT ![c] =
                          [f EXCEPT !.pc = "update",
                                    !.baseDistance =
                                        BaseDistance(heap[f.jumpersAt], f.current),
                                    !.numTokens = Len(tokens),
                                    !.sawOther = @ \/ OthersInFlight(c)]]
    /\ UNCHANGED <<dict, pc, ret, sp>>

\* lines 168-181 for the call's current position
CallUpdate(c) ==
    /\ calls[c].pc = "update"
    /\ LET f      == calls[c]
           tokens == SubSeq(heap[f.tokensAt], 1, f.numTokens)
           fr     == UpdateStep(dict, [jumpers |-> heap[f.jumpersAt], applied |-> <<>>],
                                f.text, f.searchMode, f.current, f.baseDistance,
                                tokens)
       IN  /\ heap' = [heap EXCEPT ![f.jumpersAt] = fr.jumpers]
           /\ calls' = [calls EXCEPT ![c] =
                          [f EXCEPT !.pc = IF f.current + 1 < Len(f.text)
                                           THEN "lookup" ELSE "back",
                                    !.current = f.current + 1,
                                    !.sawOther = @ \/ OthersInFlight(c)]]
    /\ UNCHANGED <<dict, pc, ret, sp>>

\* lines 183-207: the backward passes and the byte positions
CallFinish(c) ==
    /\ calls[c].pc = "back"
    /\ LET f == calls[c]
           done == [pc |-> "done", bytes |-> f.bytes, searchMode |-> f.searchMode,
                    result |-> Output(dict, heap[f.jumpersAt]),
                    sawOther |-> f.sawOther \/ OthersInFlight(c)]
       IN  /\ calls' = [calls EXCEPT ![c] = done]
           /\ heap' = Collect(heap, [calls EXCEPT ![c] = done])
    /\ UNCHANGED <<dict, pc, ret, sp>>

\* the caller takes the result
CallReturn(c) ==
    /\ calls[c].pc = "done"
    /\ calls' = [calls EXCEPT ![c] = IdleCall]
    /\ UNCHANGED <<dict, pc, ret, sp, heap>>

ConcNext ==
    \/ ConcLoadDictionary
    \/ \E c \in Callers :
          CallStart(c) \/ CallLookup(c) \/ CallUpdate(c) \/ CallFinish(c)
                       \/ CallReturn(c)

SpecConc == ConcInit /\ [][ConcNext]_vars

\* C8: a call running among concurrent calls returns what it returns when
\* run alone, the dictionary stays as LoadDictionary built it, and the
\* calls in flight hold pairwise distinct buffers.
C8_ConcurrentCalls ==
    /\ \A c \in Callers :
          calls[c].pc = "done" =>
              calls[c].result =
                  internalSegmentTraced(dict, calls[c].bytes, calls[c].searchMode).segments
    /\ dict.kind = "dict" => dict = LoadDictionaryResult(ret.content)
    /\ \A c \in Callers :
          InFlight(c) =>
              /\ calls[c].jumpersAt # calls[c].tokensAt
              /\ \A o \in Callers \ {c} :
                    InFlight(o) =>
                        {calls[c].jumpersAt, calls[c].tokensAt}
                            \cap {calls[o].jumpersAt, calls[o].tokensAt} = {}

\* a call that ran while another call was in flight has returned a
\* segmentation holding a dictionary term, the other still being in flight
C8_Witness ==
    \E c \in Callers :
        /\ calls[c].pc = "done"
        /\ calls[c].sawOther
        /\ Len(calls[c].result) >= 2
        /\ \E i \in 1..Len(calls[c].result) : calls[c].result[i].token.idx > 0
        /\ \E o \in Callers \ {c} :
              /\ InFlight(o)
              /\ calls[o].current >= 1
              /\ calls[o].bytes # calls[c].bytes
====
